---- MODULE Spec2Model ----
(***************************************************************************)
(* Model of the data-acquisition pipeline of fire_timelapse.py:            *)
(*   generate_date_chunks  (chunk planner),                                *)
(*   fetch_single_chunk    (cache lookup, rate-limit gate, retry loop),    *)
(*   fetch_fire_data       (sequential orchestration and aggregation).     *)
(*                                                                         *)
(* Dates are day ordinals (integers); a timedelta is a number of days.     *)
(* Time is counted in ticks of 1/TicksPerSecond seconds.                   *)
(* An optional Python value is None (<<>>) or Some(v) (<<v>>).            *)
(***************************************************************************)
EXTENDS Integers, Sequences, FiniteSets, TLC

None == <<>>
Some(v) == <<v>>

Min(a, b) == IF a <= b THEN a ELSE b

(***************************************************************************)
(* Bounds of the planner specification SpecPlan.                           *)
(***************************************************************************)
MaxPlanStart == 2
MaxPlanSpan  == 8
MaxChunkSize == 4
MaxBatchDays == 4

(***************************************************************************)
(* generate_date_chunks (lines 187-218).  The generator is collected into  *)
(* the sequence of <<chunk_start, chunk_end, day_range>> it yields.        *)
(***************************************************************************)
RECURSIVE generate_date_chunks(_, _, _, _)
RECURSIVE BatchLoop(_, _, _, _)
RECURSIVE ChunkLoop(_, _, _)
RECURSIVE RecursionDepth(_, _, _, _)
RECURSIVE BatchLoopDepth(_, _, _, _)

\* Mutant of ChunkEnd: the chunk end is taken chunk_size days ahead, not chunk_size - 1
ChunkEnd_OffByOne(current, end_date, chunk_size) ==
    Min(current + chunk_size, end_date)

\* lines 213-214: the end of the chunk starting at current and its day count
ChunkEnd(current, end_date, chunk_size) ==
    Min(current + (chunk_size - 1), end_date)

\* Mutant of DayRange: the day count leaves out the chunk's last day
DayRange_Exclusive(current, chunk_end) == chunk_end - current

\* line 214
DayRange(current, chunk_end) == (chunk_end - current) + 1

\* lines 211-218: while current <= end_date: yield ...; current = chunk_end + 1
ChunkLoop(current, end_date, chunk_size) ==
    IF current <= end_date
    THEN LET chunk_end == ChunkEnd(current, end_date, chunk_size)
             day_range == DayRange(current, chunk_end)
         IN  <<<<current, chunk_end, day_range>>>>
                 \o ChunkLoop(chunk_end + 1, end_date, chunk_size)
    ELSE <<>>

\* Mutant of BatchEnd: the batch end is taken max_total_days ahead, not max_total_days - 1
BatchEnd_OffByOne(batch_start, end_date, max_total_days) ==
    Min(batch_start + max_total_days[1], end_date)

\* line 204
BatchEnd(batch_start, end_date, max_total_days) ==
    Min(batch_start + (max_total_days[1] - 1), end_date)

\* lines 203-208: one recursive call per batch, with max_total_days = None
BatchLoop(batch_start, end_date, chunk_size, max_total_days) ==
    IF batch_start <= end_date
    THEN LET batch_end == BatchEnd(batch_start, end_date, max_total_days)
         IN  generate_date_chunks(batch_start, batch_end, chunk_size, None)
                 \o BatchLoop(batch_end + 1, end_date, chunk_size, max_total_days)
    ELSE <<>>

\* line 201: "if max_total_days and (end_date - start_date).days > max_total_days"
TakesBatchBranch(start_date, end_date, max_total_days) ==
    /\ max_total_days # None
    /\ max_total_days[1] # 0
    /\ (end_date - start_date) > max_total_days[1]

generate_date_chunks(start_date, end_date, chunk_size, max_total_days) ==
    IF TakesBatchBranch(start_date, end_date, max_total_days)
    THEN BatchLoop(start_date, end_date, chunk_size, max_total_days)
    ELSE ChunkLoop(start_date, end_date, chunk_size)

Max(a, b) == IF a >= b THEN a ELSE b

\* lines 203-208: the deepest nesting among the recursive calls of the batch loop
BatchLoopDepth(batch_start, end_date, chunk_size, max_total_days) ==
    IF batch_start <= end_date
    THEN LET batch_end == BatchEnd(batch_start, end_date, max_total_days)
         IN  Max(1 + RecursionDepth(batch_start, batch_end, chunk_size, None),
                 BatchLoopDepth(batch_end + 1, end_date, chunk_size, max_total_days))
    ELSE 0

\* How many calls of generate_date_chunks are nested below the outermost one
RecursionDepth(start_date, end_date, chunk_size, max_total_days) ==
    IF TakesBatchBranch(start_date, end_date, max_total_days)
    THEN BatchLoopDepth(start_date, end_date, chunk_size, max_total_days)
    ELSE 0


(***************************************************************************)
(* Strings that the code searches ('"403" in str(e)') are sequences of     *)
(* atoms: single characters, or a literal fragment holding none of the     *)
(* characters searched for.                                                *)
(***************************************************************************)
Contains(s, sub) ==
    \E i \in 1..(Len(s) - Len(sub) + 1) : SubSeq(s, i, i + Len(sub) - 1) = sub

RECURSIVE Digits(_)
\* str(n) of a natural number
Digits(n) == IF n < 10 THEN <<ToString(n)>> ELSE Digits(n \div 10) \o <<ToString(n % 10)>>

API_BASE_URL == <<"https://firms.modaps.eosdis.nasa.gov/api/area/csv">>
SOURCE == <<"MODIS_SP">>

\* line 239: chunk_start.strftime("%Y-%m-%d"); a date is its day ordinal here
DateStr(date) == Digits(date)

\* line 240
RequestUrl(mk, bb, day_range, chunk_start) ==
    API_BASE_URL \o <<"/">> \o mk \o <<"/">> \o SOURCE \o <<"/">> \o bb
        \o <<"/">> \o Digits(day_range) \o <<"/">> \o DateStr(chunk_start)

\* lines 221-232: one cache file per URL (the md5 digest names the file)
get_cache_path(url) == url

\* Bounding boxes 'west,south,east,north' (line 184) the runs are given
BboxChoices ==
    { <<"1", ".", "5", ",", "2", ".", "5", ",", "3", ".", "5", ",", "4", ".", "5">>,
      <<"1", ".", "4", "0", "3", ",", "2", ".", "5", ",", "3", ".", "5", ",", "4", ".", "5">> }

MapKeyChoices == { <<"k", "e", "y">> }

(***************************************************************************)
(* Time.  API_CALL_DELAY = 0.3 s is 3 ticks.                               *)
(***************************************************************************)
TicksPerSecond == 10
API_CALL_DELAY == 3
max_retries == 3
DefaultChunkSize == 10
YearBatchDays == 365

\* Longest time a requests.get takes before it answers or fails, in ticks
MaxNetDur == 1

\* Elapsed times are compared with API_CALL_DELAY only: they saturate there
Saturate(t) == Min(t, API_CALL_DELAY)
Elapse(since, d) == IF since = None THEN None ELSE Some(Saturate(since[1] + d))

\* lines 260-263: the sleep of the rate-limit gate
GateSleep(since_stamp) ==
    IF since_stamp # None /\ since_stamp[1] < API_CALL_DELAY
    THEN API_CALL_DELAY - since_stamp[1]
    ELSE 0

\* Mutant of RetrySleep: 1 s times the attempt number
RetrySleep_TimesAttempt(attempt) == attempt * TicksPerSecond

\* lines 267-268: time.sleep(1 + attempt) on retries
RetrySleep(attempt) == IF attempt > 0 THEN (1 + attempt) * TicksPerSecond ELSE 0

(***************************************************************************)
(* What requests.get / raise_for_status raise (line 270-271): str(e) of an *)
(* HTTPError names the status and the URL, str(e) of a timeout the host.   *)
(***************************************************************************)
FailureKinds == {"http403", "http500", "timeout"}

ExcStr(kind, url) ==
    CASE kind = "http403" ->
            <<"4", "0", "3", " Client Error: ", "Forbidden", " for url: ">> \o url
      [] kind = "http500" ->
            <<"5", "0", "0", " Server Error: ", "Internal Server Error", " for url: ">> \o url
      [] kind = "timeout" ->
            <<"HTTPSConnectionPool(host='firms.modaps.eosdis.nasa.gov', port=",
              "4", "4", "3", "): Read timed out. (read timeout=", "3", "0", ")">>

\* line 293
LooksRateLimited(msg) ==
    Contains(msg, <<"4", "0", "3">>) \/ Contains(msg, <<"Forbidden">>)

\* lines 293-296, in ticks
BackoffDelay(msg, attempt) ==
    IF LooksRateLimited(msg)
    THEN 5 * (2 ^ attempt) * TicksPerSecond
    ELSE (2 ^ attempt) * TicksPerSecond

\* Mutant of HasRetryLeft: gives up one attempt early
HasRetryLeft_OneFewer(attempt) == attempt < max_retries - 2

\* line 291
HasRetryLeft(attempt) == attempt < max_retries - 1

\* line 301
ErrorText(msg) == <<"Failed after ">> \o Digits(max_retries) \o <<" attempts: ">> \o msg

(***************************************************************************)
(* Tables and their CSV text.  A DataFrame is the sequence of its rows; a  *)
(* text (response body, cache file) is the sequence of its lines.          *)
(***************************************************************************)
Rows == 1..2
Tables == { <<>>, <<1>>, <<1, 2>> }
CsvHeader == "latitude,longitude,acq_date,frp"
RowLine(r) == ToString(r)
RowOfLine(line) == CHOOSE r \in Rows : RowLine(r) = line

\* df.to_csv(cache_path, index=False) (line 285)
to_csv(df) == <<CsvHeader>> \o [i \in 1..Len(df) |-> RowLine(df[i])]

\* pd.read_csv (lines 249, 280) of a text that has a header line
read_csv(text) == [i \in 1..(Len(text) - 1) |-> RowOfLine(text[i + 1])]

\* pd.read_csv raises EmptyDataError on a text with no line at all
ReadCsvRaises(text) == text = <<>>

NoDataText == <<"No data">>

\* response.text.strip().lower() of a one-line body (line 274)
StripLower(line) ==
    CASE line = "No data"     -> "no data"
      [] line = " NO DATA\n"  -> "no data"
      [] OTHER                -> line

IsNoDataBody(body) == Len(body) = 1 /\ StripLower(body[1]) = "no data"

\* The bodies a 2xx response may carry
OkBodies == { <<"No data">>, <<" NO DATA\n">>, <<>> } \cup { to_csv(t) : t \in Tables }

Responses ==
    [ok : {FALSE}, kind : FailureKinds] \cup [ok : {TRUE}, body : OkBodies]

VARIABLES
    plan_pc,        \* planner specification: "input" or "planned"
    plan_args,      \* <<start_date, end_date, chunk_size, max_total_days>>
    plan_out,       \* list(generate_date_chunks(*plan_args))
    plan_depth,     \* nesting of generate_date_chunks calls reached by that call
    main_pc,        \* main's preflight: "start", "validate", "key", "aoi", "fetch",
                    \* "fetching" (fetch_fire_data invoked), "exited"
    argv,           \* command line: start_date, end_date, geojson, basemap
    environ,        \* FIRMS_MAP_KEY in the environment and in .env, config.json,
                    \* which optional modules import
    main_dates,     \* what validate_dates returned (None before)
    main_key,       \* what get_map_key returned (None before)
    exit_status,    \* the status main exited with (None while it runs)
    fetch_called,   \* fetch_fire_data has been invoked
    pc,             \* where the process is: "main", "loop", "attempt", "writing",
                    \* "done" (fetch_fire_data returned), "clipped",
                    \* "raised" (uncaught exception), "killed"
    run,            \* 1: first invocation of the script, 2: the second one
    map_key, bbox, start_date, end_date, use_cache,   \* arguments of fetch_fire_data
    chunks,         \* line 321
    idx,            \* position of the for loop of line 343 in chunk_args (from 1)
    all_data, cache_hits, api_calls, errors,          \* lines 333-336
    result,         \* what fetch_fire_data returned (None before it returns)
    attempt,        \* loop variable of line 256
    pending,        \* the cache write in progress: its text and the return that follows
    cache,          \* files of CACHE_DIR: cache path -> text
    cache_dir,      \* whether CACHE_DIR exists
    since_stamp,    \* time.time() - _last_api_call_time; None while the global is None
    since_get,      \* time since the latest requests.get of this process was issued
    ret,            \* the tuple the latest fetch_single_chunk call returned
    exc,            \* the exception that left fetch_fire_data, if one did
    executed,       \* indices of the chunks fetch_single_chunk was called for, in order
    attempt_log,    \* one record per requests.get of the current call
    call_slept,     \* ticks slept so far in the current call
    last_gap,       \* time between the latest requests.get and the one before it
    run_gets,       \* number of requests.get issued in this run
    outcomes,       \* how each chunk of this run ended
    first_run,      \* what the first run left behind (None during the first run)
    report,         \* what fetch_fire_data printed about the run when it returned
    clip_out,       \* what clip_fires_to_aoi returned to main (None before)
    call_stamps,    \* assignments to _last_api_call_time in the current call
    call_writes     \* cache files opened for writing in the current call

plan_vars == <<plan_pc, plan_args, plan_out, plan_depth>>

fetch_vars ==
    <<pc, run, map_key, bbox, start_date, end_date, use_cache, chunks, idx, all_data,
      cache_hits, api_calls, errors, result, attempt, pending, cache, cache_dir,
      since_stamp, since_get, ret, exc, executed, attempt_log, call_slept, last_gap,
      run_gets, outcomes, first_run,
      report,
      clip_out,
      call_stamps,
      call_writes>>

main_vars == <<main_pc, argv, environ, main_dates, main_key, exit_status, fetch_called>>

vars == <<plan_vars, main_vars, fetch_vars>>

EmptyCache == [k \in {} |-> <<>>]

\* The date ranges the runs are given: 1 day (one chunk) and 11 days (two chunks)
DateRanges == { <<1, 1>>, <<1, 11>> }

\* A cache directory that an earlier run with --cache left behind: a valid
\* entry, holding row 1, for the first chunk of the range
LeftByEarlierRun(mk, bb, start, end) ==
    LET first == generate_date_chunks(start, end, DefaultChunkSize, Some(YearBatchDays))[1]
    IN  get_cache_path(RequestUrl(mk, bb, first[3], first[1])) :> to_csv(<<1>>)

\* State of a process that has not called fetch_fire_data yet
ProcessStart ==
    /\ pc = "main"
    /\ chunks = <<>>
    /\ idx = 1
    /\ all_data = <<>>
    /\ cache_hits = 0
    /\ api_calls = 0
    /\ errors = <<>>
    /\ result = None
    /\ attempt = 0
    /\ pending = None
    /\ since_stamp = None
    /\ since_get = None
    /\ ret = None
    /\ exc = None
    /\ executed = <<>>
    /\ attempt_log = <<>>
    /\ call_slept = 0
    /\ last_gap = None
    /\ run_gets = 0
    /\ outcomes = <<>>
    /\ call_writes = 0
    /\ call_stamps = 0
    /\ clip_out = None
    /\ report = None

FetchInit ==
    /\ ProcessStart
    /\ run = 1
    /\ map_key \in MapKeyChoices
    /\ bbox \in BboxChoices
    /\ \E r \in DateRanges : start_date = r[1] /\ end_date = r[2]
    /\ use_cache \in BOOLEAN
    /\ cache \in IF use_cache THEN {EmptyCache}
                ELSE {EmptyCache, LeftByEarlierRun(map_key, bbox, start_date, end_date)}
    /\ cache_dir = (cache # EmptyCache)
    /\ first_run = None

(***************************************************************************)
(* The planner on its own: SpecPlan                                        *)
(***************************************************************************)
PlanInputs ==
    { <<s, e, c, m>> : s \in 0..MaxPlanStart, e \in 0..(MaxPlanStart + MaxPlanSpan),
                       c \in 1..MaxChunkSize,
                       m \in {None} \cup { Some(d) : d \in 1..MaxBatchDays } }

\* The range of the usage examples, planned as fetch_fire_data plans it
\* (chunk_size 10, max_total_days 365) and without batching
ExampleInputs ==
    { <<1, 31, DefaultChunkSize, None>>, <<1, 31, DefaultChunkSize, Some(YearBatchDays)>> }

\* main's preflight is not part of this specification
MainUnused ==
    /\ main_pc = "unused"
    /\ argv = <<>>
    /\ environ = <<>>
    /\ main_dates = None
    /\ main_key = None
    /\ exit_status = None
    /\ fetch_called = FALSE

PlanInit ==
    /\ MainUnused
    /\ plan_pc = "input"
    /\ plan_args \in { a \in PlanInputs : a[1] <= a[2] /\ a[2] - a[1] <= MaxPlanSpan }
                        \cup ExampleInputs
    /\ plan_out = <<>>
    /\ plan_depth = 0
    /\ FetchInit
    /\ use_cache = FALSE
    /\ cache = EmptyCache
    /\ bbox = CHOOSE b \in BboxChoices : TRUE
    /\ end_date = start_date

\* list(generate_date_chunks(start_date, end_date, chunk_size, max_total_days))
PlanCall ==
    /\ plan_pc = "input"
    /\ plan_out' = generate_date_chunks(plan_args[1], plan_args[2], plan_args[3], plan_args[4])
    /\ plan_depth' = RecursionDepth(plan_args[1], plan_args[2], plan_args[3], plan_args[4])
    /\ plan_pc' = "planned"
    /\ UNCHANGED <<plan_args, main_vars, fetch_vars>>

PlanNext == PlanCall

SpecPlan == PlanInit /\ [][PlanNext]_vars

(***************************************************************************)
(* main's preflight (lines 944-974): SpecMain                              *)
(***************************************************************************)
DigitChars == { Digits(n)[1] : n \in 0..9 }
DigitVal(c) == CHOOSE n \in 0..9 : Digits(n) = <<c>>

RECURSIVE NumVal(_)
\* int(s) of a string of digits
NumVal(s) ==
    IF s = <<>> THEN 0
    ELSE NumVal(SubSeq(s, 1, Len(s) - 1)) * 10 + DigitVal(s[Len(s)])

\* The directives of the format "%Y-%m-%d" as datetime.strptime matches them:
\* %Y is \d\d\d\d, %m is 1[0-2]|0[1-9]|[1-9], %d is 3[0-1]|[1-2]\d|0[1-9]|[1-9]| [1-9]
YearField(f) == Len(f) = 4 /\ \A i \in 1..4 : f[i] \in DigitChars

MonthField(f) ==
    \/ Len(f) = 2 /\ f[1] = "1" /\ f[2] \in {"0", "1", "2"}
    \/ Len(f) = 2 /\ f[1] = "0" /\ f[2] \in DigitChars \ {"0"}
    \/ Len(f) = 1 /\ f[1] \in DigitChars \ {"0"}

DayField(f) ==
    \/ Len(f) = 2 /\ f[1] = "3" /\ f[2] \in {"0", "1"}
    \/ Len(f) = 2 /\ f[1] \in {"1", "2"} /\ f[2] \in DigitChars
    \/ Len(f) = 2 /\ f[1] = "0" /\ f[2] \in DigitChars \ {"0"}
    \/ Len(f) = 1 /\ f[1] \in DigitChars \ {"0"}
    \/ Len(f) = 2 /\ f[1] = " " /\ f[2] \in DigitChars \ {"0"}

DayVal(f) == IF f[1] = " " THEN DigitVal(f[2]) ELSE NumVal(f)

IsLeap(y) == y % 4 = 0 /\ (y % 100 # 0 \/ y % 400 = 0)

DaysInMonth(y, m) ==
    IF m = 2 THEN (IF IsLeap(y) THEN 29 ELSE 28)
    ELSE IF m \in {4, 6, 9, 11} THEN 30 ELSE 31

\* The positions <<i, j>> of the two separators of a string the format matches whole
Separators(s) ==
    { ij \in (1..Len(s)) \X (1..Len(s)) :
        /\ ij[1] < ij[2]
        /\ s[ij[1]] = "-"
        /\ s[ij[2]] = "-"
        /\ YearField(SubSeq(s, 1, ij[1] - 1))
        /\ MonthField(SubSeq(s, ij[1] + 1, ij[2] - 1))
        /\ DayField(SubSeq(s, ij[2] + 1, Len(s))) }

\* datetime.strptime(s, "%Y-%m-%d") (lines 883-884): Some(<<year, month, day>>),
\* or None where it raises ValueError (no match, or no such calendar date)
strptime(s) ==
    IF Separators(s) = {} THEN None
    ELSE LET ij == CHOOSE x \in Separators(s) : TRUE
             y  == NumVal(SubSeq(s, 1, ij[1] - 1))
             m  == NumVal(SubSeq(s, ij[1] + 1, ij[2] - 1))
             d  == DayVal(SubSeq(s, ij[2] + 1, Len(s)))
         IN  IF y >= 1 /\ d <= DaysInMonth(y, m) THEN Some(<<y, m, d>>) ELSE None

\* a > b on dates <<year, month, day>>
DateAfter(a, b) ==
    \/ a[1] > b[1]
    \/ a[1] = b[1] /\ a[2] > b[2]
    \/ a[1] = b[1] /\ a[2] = b[2] /\ a[3] > b[3]

\* Mutant of StartAfterEnd: equal dates are rejected too
StartAfterEnd_OrEqual(start, end) == DateAfter(start, end) \/ start = end

\* line 890: if start_date > end_date
StartAfterEnd(start, end) == DateAfter(start, end)

\* "not map_key": None and the empty string are falsy
Falsy(k) == k = None \/ k[1] = <<>>

\* lines 91-95: os.environ.get("FIRMS_MAP_KEY") once load_dotenv(), which keeps
\* a variable that is already set, has run where python-dotenv imports
EnvKey(env) ==
    IF env.os_key # None THEN env.os_key
    ELSE IF env.has_dotenv THEN env.dotenv_key ELSE None

\* lines 97-106: config.json is consulted only without a key from the environment;
\* a file that does not load leaves the key as it was
ConfigKey(env) ==
    IF env.config.exists /\ env.config.loads THEN env.config.MAP_KEY ELSE EnvKey(env)

\* lines 91-117: the key get_map_key returns, None where it exits
get_map_key(env) ==
    LET k == IF Falsy(EnvKey(env)) THEN ConfigKey(env) ELSE EnvKey(env)
    IN  IF Falsy(k) THEN None ELSE k

\* "2023-08-01", "2023-08-31", the unpadded "2023-8-1", the date "2023-02-30" that
\* does not exist, and "08/01/2023"
DATE_0801 == <<"2", "0", "2", "3", "-", "0", "8", "-", "0", "1">>
DATE_0831 == <<"2", "0", "2", "3", "-", "0", "8", "-", "3", "1">>
DATE_8_1 == <<"2", "0", "2", "3", "-", "8", "-", "1">>
DATE_0230 == <<"2", "0", "2", "3", "-", "0", "2", "-", "3", "0">>
DATE_SLASH == <<"0", "8", "/", "0", "1", "/", "2", "0", "2", "3">>

\* The date strings given on the command line
DateStrings ==
    { DATE_0801, DATE_0831, DATE_8_1, DATE_0230, DATE_SLASH }

KeyChoices == { None, Some(<<>>), Some(<<"k">>) }

ConfigChoices ==
    { [exists |-> FALSE, loads |-> FALSE, MAP_KEY |-> None],
      [exists |-> TRUE,  loads |-> FALSE, MAP_KEY |-> None],
      [exists |-> TRUE,  loads |-> TRUE,  MAP_KEY |-> None],
      [exists |-> TRUE,  loads |-> TRUE,  MAP_KEY |-> Some(<<"c">>)] }

MainInit ==
    /\ main_pc = "start"
    /\ argv \in [start_date : DateStrings, end_date : DateStrings,
                 geojson : {"missing", "unloadable", "ok"},
                 basemap : {"satellite", "none"}]
    /\ environ \in [os_key : {None, Some(<<"k">>)}, dotenv_key : KeyChoices,
                    has_dotenv : BOOLEAN, config : ConfigChoices,
                    HAS_CONTEXTILY : BOOLEAN]
    /\ main_dates = None
    /\ main_key = None
    /\ exit_status = None
    /\ fetch_called = FALSE
    /\ plan_pc = "unused"
    /\ plan_args = <<>>
    /\ plan_out = <<>>
    /\ plan_depth = 0
    /\ FetchInit
    /\ use_cache = FALSE
    /\ cache = EmptyCache
    /\ map_key = CHOOSE k \in MapKeyChoices : TRUE
    /\ bbox = CHOOSE b \in BboxChoices : TRUE
    /\ end_date = start_date

\* sys.exit(1)
Exit1 ==
    /\ main_pc' = "exited"
    /\ exit_status' = Some(1)

\* lines 944-958: a basemap needs contextily
MainChecksBasemap ==
    /\ main_pc = "start"
    /\ IF argv.basemap # "none" /\ ~environ.HAS_CONTEXTILY
       THEN Exit1
       ELSE main_pc' = "validate" /\ UNCHANGED exit_status
    /\ UNCHANGED <<plan_vars, fetch_vars, argv, environ, main_dates, main_key, fetch_called>>

\* lines 961, 882-900: validate_dates
MainValidatesDates ==
    /\ main_pc = "validate"
    /\ LET start == strptime(argv.start_date)
           end   == strptime(argv.end_date)
       IN  IF start = None \/ end = None
           THEN Exit1 /\ UNCHANGED main_dates
           ELSE IF StartAfterEnd(start[1], end[1])
                THEN Exit1 /\ UNCHANGED main_dates
                ELSE /\ main_dates' = Some(<<start[1], end[1]>>)
                     /\ main_pc' = "key"
                     /\ UNCHANGED exit_status
    /\ UNCHANGED <<plan_vars, fetch_vars, argv, environ, main_key, fetch_called>>

\* lines 962, 91-117: get_map_key
MainGetsMapKey ==
    /\ main_pc = "key"
    /\ IF get_map_key(environ) = None
       THEN Exit1 /\ UNCHANGED main_key
       ELSE /\ main_key' = get_map_key(environ)
            /\ main_pc' = "aoi"
            /\ UNCHANGED exit_status
    /\ UNCHANGED <<plan_vars, fetch_vars, argv, environ, main_dates, fetch_called>>

\* lines 967, 133-154: load_aoi
MainLoadsAoi ==
    /\ main_pc = "aoi"
    /\ IF argv.geojson \in {"missing", "unloadable"}
       THEN Exit1
       ELSE main_pc' = "fetch" /\ UNCHANGED exit_status
    /\ UNCHANGED <<plan_vars, fetch_vars, argv, environ, main_dates, main_key, fetch_called>>

\* lines 968-974: the bounding box is taken and fetch_fire_data is invoked
MainCallsFetch ==
    /\ main_pc = "fetch"
    /\ fetch_called' = TRUE
    /\ main_pc' = "fetching"
    /\ UNCHANGED <<plan_vars, fetch_vars, argv, environ, main_dates, main_key, exit_status>>

MainNext ==
    \/ MainChecksBasemap
    \/ MainValidatesDates
    \/ MainGetsMapKey
    \/ MainLoadsAoi
    \/ MainCallsFetch

SpecMain == MainInit /\ [][MainNext]_vars

(***************************************************************************)
(* fetch_fire_data and fetch_single_chunk: Spec                            *)
(***************************************************************************)
Init ==
    /\ MainUnused
    /\ plan_pc = "unused"
    /\ plan_args = <<>>
    /\ plan_out = <<>>
    /\ plan_depth = 0
    /\ FetchInit

\* Mutant of MkdirCache: the cache directory is created whether or not caching is on
MkdirCache_Always == TRUE

\* lines 326-327: if use_cache: CACHE_DIR.mkdir(parents=True, exist_ok=True)
MkdirCache == cache_dir \/ use_cache

\* lines 321-336
FetchFireDataStart ==
    /\ pc = "main"
    /\ chunks' = generate_date_chunks(start_date, end_date, DefaultChunkSize,
                                      Some(YearBatchDays))
    /\ cache_dir' = MkdirCache
    /\ all_data' = <<>>
    /\ cache_hits' = 0
    /\ api_calls' = 0
    /\ errors' = <<>>
    /\ idx' = 1
    /\ pc' = "loop"
    /\ UNCHANGED <<plan_vars, call_writes, call_stamps, main_vars, clip_out, report, run, map_key, bbox, start_date, end_date, use_cache, result,
                   attempt, pending, cache, since_stamp, since_get, ret, exc, executed,
                   attempt_log, call_slept, last_gap, run_gets, outcomes, first_run>>

ChunkUrl == RequestUrl(map_key, bbox, chunks[idx][3], chunks[idx][1])
CachePath == get_cache_path(ChunkUrl)

\* line 244
CacheFileExists == CachePath \in DOMAIN cache

\* lines 245-252: the read succeeds (no exception sends it to the API call)
CacheReadable == CacheFileExists /\ (cache[CachePath] = NoDataText \/ ~ReadCsvRaises(cache[CachePath]))

\* Mutant of CachedTuple: a cache hit reported as an API call
CachedTuple_CountsApiCall ==
    IF cache[CachePath] = NoDataText
    THEN [df |-> None, from_cache |-> TRUE, api_called |-> TRUE, error |-> None]
    ELSE [df |-> Some(read_csv(cache[CachePath])), from_cache |-> TRUE,
          api_called |-> TRUE, error |-> None]

\* lines 246-250: what a readable entry returns
CachedTuple ==
    IF cache[CachePath] = NoDataText
    THEN [df |-> None, from_cache |-> TRUE, api_called |-> FALSE, error |-> None]
    ELSE [df |-> Some(read_csv(cache[CachePath])), from_cache |-> TRUE,
          api_called |-> FALSE, error |-> None]

\* lines 344-355: fetch_single_chunk returns t and the loop body books it
ReturnToLoop(t, how) ==
    /\ ret' = Some(t)
    /\ all_data' = IF t.df # None THEN Append(all_data, t.df[1]) ELSE all_data
    /\ errors' = IF t.error # None
                 THEN Append(errors, <<chunks[idx][1], chunks[idx][2], t.error[1]>>)
                 ELSE errors
    /\ cache_hits' = IF t.from_cache THEN cache_hits + 1 ELSE cache_hits
    /\ api_calls' = IF t.api_called THEN api_calls + 1 ELSE api_calls
    /\ outcomes' = Append(outcomes, how)
    /\ idx' = idx + 1
    /\ attempt' = 0
    /\ pending' = None
    /\ pc' = "loop"

\* lines 343-344, 237-250: the call for the next chunk finds a readable cache entry
CacheHit ==
    /\ pc = "loop"
    /\ idx <= Len(chunks)
    /\ use_cache
    /\ CacheReadable
    /\ executed' = Append(executed, idx)
    /\ attempt_log' = <<>>
    /\ call_slept' = 0
    /\ ReturnToLoop(CachedTuple, IF CachedTuple.df = None THEN "hit_empty" ELSE "hit_rows")
    /\ call_stamps' = 0
    /\ call_writes' = 0
    /\ UNCHANGED <<plan_vars, main_vars, clip_out, report, run, map_key, bbox, start_date, end_date, use_cache, chunks,
                   result, cache, cache_dir, since_stamp, since_get, exc, last_gap,
                   run_gets, first_run>>

\* lines 343-344, 237-256: no cache, no file, or an unreadable file: on to the API
CacheMiss ==
    /\ pc = "loop"
    /\ idx <= Len(chunks)
    /\ ~(use_cache /\ CacheReadable)
    /\ executed' = Append(executed, idx)
    /\ attempt_log' = <<>>
    /\ call_slept' = 0
    /\ attempt' = 0
    /\ pc' = "attempt"
    /\ call_stamps' = 0
    /\ call_writes' = 0
    /\ UNCHANGED <<plan_vars, main_vars, clip_out, report, run, map_key, bbox, start_date, end_date, use_cache, chunks,
                   idx, all_data, cache_hits, api_calls, errors, result, pending, cache,
                   cache_dir, since_stamp, since_get, ret, exc, last_gap, run_gets,
                   outcomes, first_run>>

\* Mutant of ApiTuple: a live fetch that does not report api_called
ApiTuple_NotCounted(df, error) ==
    [df |-> df, from_cache |-> FALSE, api_called |-> FALSE, error |-> error]

ApiTuple(df, error) ==
    [df |-> df, from_cache |-> FALSE, api_called |-> TRUE, error |-> error]

\* lines 258-270: gate, stamp, retry delay, then requests.get answering after dur
\* ticks; `after` is the sleep that follows the answer (a backoff) and `kind`
\* what the request ended in
IssueGet(dur, kind, after) ==
    LET gate == GateSleep(since_stamp)
        retry == RetrySleep(attempt)
        before == IF attempt_log = <<>> THEN 0
                  ELSE attempt_log[Len(attempt_log)].backoff
    IN  /\ last_gap' = Elapse(since_get, gate + retry)
        /\ since_stamp' = Some(Saturate(retry + dur + after))
        /\ since_get' = Some(Saturate(dur + after))
        /\ call_stamps' = call_stamps + 1
        /\ run_gets' = run_gets + 1
        /\ call_slept' = call_slept + gate + retry + after
        /\ attempt_log' = Append(attempt_log,
                                 [attempt |-> attempt, ended |-> kind, gate |-> gate,
                                  slept_before |-> before + gate + retry,
                                  backoff |-> after])

\* lines 290-298: a RequestException with attempts left: back off and retry
AttemptFailsRetry ==
    /\ pc = "attempt"
    /\ HasRetryLeft(attempt)
    /\ \E kind \in FailureKinds, dur \in 0..MaxNetDur :
          IssueGet(dur, kind, BackoffDelay(ExcStr(kind, ChunkUrl), attempt))
    /\ attempt' = attempt + 1
    /\ UNCHANGED <<plan_vars, call_writes, main_vars, clip_out, report, pc, run, map_key, bbox, start_date, end_date, use_cache,
                   chunks, idx, all_data, cache_hits, api_calls, errors, result, pending,
                   cache, cache_dir, ret, exc, executed, outcomes, first_run>>

\* lines 290-301: a RequestException on the last attempt: the error tuple
AttemptFailsLast ==
    /\ pc = "attempt"
    /\ ~HasRetryLeft(attempt)
    /\ \E kind \in FailureKinds, dur \in 0..MaxNetDur :
          /\ IssueGet(dur, kind, 0)
          /\ ReturnToLoop(ApiTuple(None, Some(ErrorText(ExcStr(kind, ChunkUrl)))), "error")
    /\ UNCHANGED <<plan_vars, call_writes, main_vars, clip_out, report, run, map_key, bbox, start_date, end_date, use_cache, chunks,
                   result, cache, cache_dir, exc, executed, first_run>>

\* What a 2xx body leads to (lines 273-288): the text to cache, if any, and the
\* tuple to return
BodyRaises(body) == ~IsNoDataBody(body) /\ ReadCsvRaises(body)
BodyTuple(body) ==
    IF IsNoDataBody(body) THEN ApiTuple(None, None)
    ELSE IF read_csv(body) # <<>> THEN ApiTuple(Some(read_csv(body)), None)
    ELSE ApiTuple(None, None)
BodyHow(body) ==
    IF IsNoDataBody(body) THEN "nodata"
    ELSE IF read_csv(body) # <<>> THEN "rows" ELSE "zero"
\* Mutant of BodyCacheText: a table without rows is persisted too
BodyCacheText_AlsoZeroRows(body) ==
    IF IsNoDataBody(body) THEN Some(NoDataText)
    ELSE Some(to_csv(read_csv(body)))

\* Mutant of BodyCacheText: the no-data sentinel is not persisted
BodyCacheText_SkipsSentinel(body) ==
    IF IsNoDataBody(body) THEN None
    ELSE IF read_csv(body) # <<>> THEN Some(to_csv(read_csv(body)))
    ELSE None

\* lines 275-276, 282-285
BodyCacheText(body) ==
    IF IsNoDataBody(body) THEN Some(NoDataText)
    ELSE IF read_csv(body) # <<>> THEN Some(to_csv(read_csv(body)))
    ELSE None

\* lines 270-288: a 2xx answer that is returned without a cache write
AttemptReturns ==
    /\ pc = "attempt"
    /\ \E body \in OkBodies, dur \in 0..MaxNetDur :
          /\ ~BodyRaises(body)
          /\ ~(use_cache /\ BodyCacheText(body) # None)
          /\ IssueGet(dur, "ok", 0)
          /\ ReturnToLoop(BodyTuple(body), BodyHow(body))
    /\ UNCHANGED <<plan_vars, call_writes, main_vars, clip_out, report, run, map_key, bbox, start_date, end_date, use_cache, chunks,
                   result, cache, cache_dir, exc, executed, first_run>>

\* line 280: pd.read_csv raises on a body it cannot parse; the exception is no
\* RequestException and leaves fetch_single_chunk and fetch_fire_data
AttemptParseRaises ==
    /\ pc = "attempt"
    /\ \E body \in OkBodies, dur \in 0..MaxNetDur :
          /\ BodyRaises(body)
          /\ IssueGet(dur, "ok", 0)
    /\ exc' = Some("EmptyDataError")
    /\ pc' = "raised"
    /\ UNCHANGED <<plan_vars, call_writes, main_vars, clip_out, report, run, map_key, bbox, start_date, end_date, use_cache, chunks,
                   idx, all_data, cache_hits, api_calls, errors, result, attempt, pending,
                   cache, cache_dir, ret, executed, outcomes, first_run>>

\* lines 276, 285: the cache file is opened for writing (created or truncated)
AttemptOpensCacheFile ==
    /\ pc = "attempt"
    /\ use_cache
    /\ \E body \in OkBodies, dur \in 0..MaxNetDur :
          /\ ~BodyRaises(body)
          /\ BodyCacheText(body) # None
          /\ IssueGet(dur, "ok", 0)
          /\ pending' = Some([text |-> BodyCacheText(body)[1], t |-> BodyTuple(body),
                              how |-> BodyHow(body)])
    /\ cache' = (CachePath :> <<>>) @@ cache
    /\ pc' = "writing"
    /\ call_writes' = call_writes + 1
    /\ UNCHANGED <<plan_vars, main_vars, clip_out, report, run, map_key, bbox, start_date, end_date, use_cache, chunks,
                   idx, all_data, cache_hits, api_calls, errors, result, attempt,
                   cache_dir, ret, exc, executed, outcomes, first_run>>

\* lines 276, 285: the write fails (OSError: disk full, no permission, directory
\* removed); no handler catches it
AttemptCacheWriteRaises ==
    /\ pc = "attempt"
    /\ use_cache
    /\ \E body \in OkBodies, dur \in 0..MaxNetDur :
          /\ ~BodyRaises(body)
          /\ BodyCacheText(body) # None
          /\ IssueGet(dur, "ok", 0)
    /\ exc' = Some("OSError")
    /\ pc' = "raised"
    /\ UNCHANGED <<plan_vars, call_writes, main_vars, clip_out, report, run, map_key, bbox, start_date, end_date, use_cache, chunks,
                   idx, all_data, cache_hits, api_calls, errors, result, attempt, pending,
                   cache, cache_dir, ret, executed, outcomes, first_run>>

\* lines 276-277, 285-286: the next line reaches the file; after the last one the
\* file is closed and the tuple returned
WriteLine ==
    /\ pc = "writing"
    /\ LET file == cache[CachePath]
           text == pending[1].text
           next == Append(file, text[Len(file) + 1])
       IN  /\ cache' = [cache EXCEPT ![CachePath] = next]
           /\ IF next = text
              THEN ReturnToLoop(pending[1].t, pending[1].how)
              ELSE UNCHANGED <<pc, idx, all_data, cache_hits, api_calls, errors, attempt,
                               pending, ret, outcomes>>
    /\ UNCHANGED <<plan_vars, call_writes, call_stamps, main_vars, clip_out, report, run, map_key, bbox, start_date, end_date, use_cache, chunks,
                   result, cache_dir, since_stamp, since_get, exc, executed, attempt_log,
                   call_slept, last_gap, run_gets, first_run>>

\* The process is terminated from outside while the cache file is being written
Kill ==
    /\ pc = "writing"
    /\ pc' = "killed"
    /\ UNCHANGED <<plan_vars, call_writes, call_stamps, main_vars, clip_out, report, run, map_key, bbox, start_date, end_date, use_cache, chunks,
                   idx, all_data, cache_hits, api_calls, errors, result, attempt, pending,
                   cache, cache_dir, since_stamp, since_get, ret, exc, executed,
                   attempt_log, call_slept, last_gap, run_gets, outcomes, first_run>>

RECURSIVE Concat(_)
\* pd.concat(all_data, ignore_index=True) (line 362)
Concat(dfs) == IF dfs = <<>> THEN <<>> ELSE Head(dfs) \o Concat(Tail(dfs))

\* Mutant of drop_duplicates: every row is kept
drop_duplicates_KeepsAll(df) == df

RECURSIVE drop_duplicates(_)
\* DataFrame.drop_duplicates() keeps the first occurrence of each row (line 365)
drop_duplicates(df) ==
    IF df = <<>> THEN <<>>
    ELSE LET front == drop_duplicates(SubSeq(df, 1, Len(df) - 1))
             last == df[Len(df)]
         IN  IF \E i \in 1..Len(front) : front[i] = last THEN front
             ELSE Append(front, last)

\* lines 357-377
Combined == IF all_data = <<>> THEN <<>> ELSE drop_duplicates(Concat(all_data))

\* line 371: errors[:10]
ErrorsShown == 10

\* lines 357-375: what the run prints about itself before it returns.  With no
\* table collected only the warning is printed (lines 357-359)
PrintedReport ==
    IF all_data = <<>>
    THEN [warning |-> TRUE, stats |-> None, failures |-> <<>>, more |-> 0]
    ELSE [warning |-> FALSE, stats |-> Some(<<cache_hits, api_calls>>),
          failures |-> SubSeq(errors, 1, Min(Len(errors), ErrorsShown)),
          more |-> IF Len(errors) > ErrorsShown THEN Len(errors) - ErrorsShown ELSE 0]

FetchFireDataReturn ==
    /\ pc = "loop"
    /\ idx > Len(chunks)
    /\ result' = Some(Combined)
    /\ pc' = "done"
    /\ report' = Some(PrintedReport)
    /\ UNCHANGED <<plan_vars, call_writes, call_stamps, main_vars, clip_out, run, map_key, bbox, start_date, end_date, use_cache, chunks,
                   idx, all_data, cache_hits, api_calls, errors, attempt, pending, cache,
                   cache_dir, since_stamp, since_get, ret, exc, executed, attempt_log,
                   call_slept, last_gap, run_gets, outcomes, first_run>>

\* The rows whose point lies inside the AOI polygon
RowsInAoi == {1}
InAoi(row) == row \in RowsInAoi

\* Mutant of clip_fires_to_aoi: no early return for an empty table, so the
\* column lookup fire_df['longitude'] raises on pd.DataFrame()
clip_fires_to_aoi_NoEmptyCheck(fire_df) ==
    IF fire_df = <<>>
    THEN [raised |-> TRUE, all |-> <<>>, clipped |-> <<>>]
    ELSE [raised |-> FALSE, all |-> fire_df, clipped |-> SelectSeq(fire_df, InAoi)]

\* lines 380-405: the early return for an empty table (391-392), else clip
clip_fires_to_aoi(fire_df) ==
    IF fire_df = <<>>
    THEN [raised |-> FALSE, all |-> <<>>, clipped |-> <<>>]
    ELSE [raised |-> FALSE, all |-> fire_df, clipped |-> SelectSeq(fire_df, InAoi)]

\* main, lines 974-980: the table fetch_fire_data returned is clipped to the AOI
MainClips ==
    /\ pc = "done"
    /\ clip_out' = Some(clip_fires_to_aoi(result[1]))
    /\ pc' = IF clip_fires_to_aoi(result[1]).raised THEN "raised" ELSE "clipped"
    /\ UNCHANGED <<plan_vars, call_writes, call_stamps, main_vars, report, run, map_key, bbox, start_date, end_date, use_cache, chunks,
                   idx, all_data, cache_hits, api_calls, errors, result, attempt, pending,
                   cache, cache_dir, since_stamp, since_get, ret, exc, executed,
                   attempt_log, call_slept, last_gap, run_gets, outcomes, first_run>>

\* The script is invoked a second time with the same arguments (--cache given);
\* the cache directory is as the first run left it, the module globals are fresh
Rerun ==
    /\ pc \in {"clipped", "raised", "killed"}
    /\ run = 1
    /\ use_cache
    /\ run' = 2
    /\ first_run' = Some([finished |-> pc = "clipped", result |-> result,
                          outcomes |-> outcomes])
    /\ pc' = "main"
    /\ chunks' = <<>>
    /\ idx' = 1
    /\ all_data' = <<>>
    /\ cache_hits' = 0
    /\ api_calls' = 0
    /\ errors' = <<>>
    /\ result' = None
    /\ attempt' = 0
    /\ pending' = None
    /\ since_stamp' = None
    /\ since_get' = None
    /\ ret' = None
    /\ exc' = None
    /\ executed' = <<>>
    /\ attempt_log' = <<>>
    /\ call_slept' = 0
    /\ last_gap' = None
    /\ run_gets' = 0
    /\ outcomes' = <<>>
    /\ call_writes' = 0
    /\ call_stamps' = 0
    /\ clip_out' = None
    /\ report' = None
    /\ UNCHANGED <<plan_vars, main_vars, map_key, bbox, start_date, end_date, use_cache, cache,
                   cache_dir>>

Next ==
    \/ FetchFireDataStart
    \/ CacheHit
    \/ CacheMiss
    \/ AttemptFailsRetry
    \/ AttemptFailsLast
    \/ AttemptReturns
    \/ AttemptParseRaises
    \/ AttemptOpensCacheFile
    \/ AttemptCacheWriteRaises
    \/ WriteLine
    \/ Kill
    \/ FetchFireDataReturn
    \/ MainClips
    \/ Rerun

Spec == Init /\ [][Next]_vars

----
\* C1: for start <= end and chunk_size >= 1 the chunks come in chronological
\* order and exactly partition the range: the first starts at start, the last
\* ends at end, each starts one day after the previous one ends, day_range is
\* (chunk_end - chunk_start) + 1 and never exceeds chunk_size; with or without
\* the batching branch.
C1_ChunksPartitionRange ==
    plan_pc = "planned" =>
        /\ Len(plan_out) >= 1
        /\ plan_out[1][1] = plan_args[1]
        /\ plan_out[Len(plan_out)][2] = plan_args[2]
        /\ \A i \in 1..Len(plan_out) :
              /\ plan_out[i][1] <= plan_out[i][2]
              /\ plan_out[i][3] = (plan_out[i][2] - plan_out[i][1]) + 1
              /\ plan_out[i][3] <= plan_args[3]
        /\ \A i \in 1..(Len(plan_out) - 1) :
              plan_out[i + 1][1] = plan_out[i][2] + 1

C1_Witness ==
    /\ plan_pc = "planned"
    /\ TakesBatchBranch(plan_args[1], plan_args[2], plan_args[4])
    /\ Len(plan_out) >= 3
    /\ plan_out[Len(plan_out)][3] < plan_args[3]

----
\* The latest fetch_single_chunk call has returned and no later call has begun:
\* ret is its tuple and attempt_log the record of its requests
CallReturned == pc \in {"loop", "done"} /\ ret # None

\* C2: fetch_single_chunk returns an error only after exactly 3 requests were
\* issued for the chunk and every one of them ended in a transport failure; no
\* call issues a 4th request.
C2_ErrorOnlyAfterThreeFailedGets ==
    /\ Len(attempt_log) <= 3
    /\ (CallReturned /\ ret[1].error # None) =>
          /\ Len(attempt_log) = 3
          /\ \A i \in 1..3 : attempt_log[i].ended \in FailureKinds

C2_Witness ==
    /\ CallReturned
    /\ ret[1].error # None
    /\ Len(attempt_log) = 3

\* C3: fetch_single_chunk never raises to its caller, whatever the network call,
\* the parsing of the response and the cache reads and writes do.
C3_NeverRaises == pc # "raised"

\* C4: with use_cache and a readable cache entry for the chunk's URL the call
\* returns the cached rows, or the cached empty outcome, with from_cache = True
\* and api_called = False, issues no request, sleeps not at all and leaves the
\* shared clock and the cache as they were.
C4_CacheHitTouchesNothing ==
    [][ (pc = "loop" /\ idx <= Len(chunks) /\ use_cache /\ CacheReadable) =>
          LET file == cache[CachePath] IN
          /\ ret' # None
          /\ ret'[1].from_cache = TRUE
          /\ ret'[1].api_called = FALSE
          /\ ret'[1].error = None
          /\ (file = <<"No data">>) => ret'[1].df = None
          /\ (file # <<"No data">>) =>
                /\ ret'[1].df # None
                /\ Len(ret'[1].df[1]) = Len(file) - 1
                /\ \A i \in 1..(Len(file) - 1) : RowLine(ret'[1].df[1][i]) = file[i + 1]
          /\ run_gets' = run_gets
          /\ attempt_log' = <<>>
          /\ call_slept' = 0
          /\ since_stamp' = since_stamp
          /\ since_get' = since_get
          /\ cache' = cache ]_vars

C4_Witness ==
    /\ run = 2
    /\ CallReturned
    /\ ret[1].from_cache
    /\ ret[1].df # None
    /\ Len(ret[1].df[1]) = 2
    /\ Len(executed) = 2
    /\ since_stamp # None

\* C5: a chunk that ends in an error never aborts the run: every chunk of the
\* plan is executed exactly once, in plan order, whatever the earlier chunks
\* ended in, and the run returns.
C5_EveryChunkExecuted ==
    pc \in {"done", "raised"} =>
        /\ pc = "done"
        /\ executed = [i \in 1..Len(chunks) |-> i]

\* C6 as stated: after a first run with use_cache that returned, whatever its
\* chunks ended in, the second run issues no request and returns the same table.
C6_SecondRunOffline ==
    (run = 2 /\ first_run[1].finished) =>
        /\ run_gets = 0
        /\ pc = "done" => result = first_run[1].result

\* Every chunk of the first run ended in a non-empty table or the no-data sentinel
FirstRunAllCached ==
    /\ first_run[1].finished
    /\ \A i \in 1..Len(first_run[1].outcomes) :
          first_run[1].outcomes[i] \in {"rows", "nodata"}

\* C6 as amended: after a first run with use_cache that returned and in which
\* every chunk ended in a non-empty table or the no-data sentinel, the second
\* run issues no request, raises nothing and returns the same table.
C6_SecondRunOfflineWhenAllCached ==
    (run = 2 /\ FirstRunAllCached) =>
        /\ run_gets = 0
        /\ pc \in {"main", "loop", "done", "clipped"}
        /\ pc = "done" => result = first_run[1].result

C6_Witness ==
    /\ run = 2
    /\ pc = "done"
    /\ FirstRunAllCached
    /\ first_run[1].outcomes = <<"rows", "nodata">>
    /\ result = Some(<<1, 2>>)
    /\ cache_hits = 2

\* C7: any two consecutive requests of a run, across chunks and retries, are
\* issued at least API_CALL_DELAY apart.
C7_RequestsSpaced == last_gap # None => last_gap[1] >= API_CALL_DELAY

\* C8: the backoff after a failed attempt k = 0, 1 depends on the cause alone:
\* 5 * 2^k s after an HTTP 403, 2^k s after any other transport failure,
\* whatever the URL holds; there is none after the last attempt.
C8_BackoffByCauseAlone ==
    \A i \in 1..Len(attempt_log) :
        LET a == attempt_log[i] IN
        a.ended \in FailureKinds =>
            a.backoff = IF a.attempt >= 2 THEN 0
                        ELSE IF a.ended = "http403"
                             THEN 5 * (2 ^ a.attempt) * TicksPerSecond
                             ELSE (2 ^ a.attempt) * TicksPerSecond

\* The call that returned made three requests and each got an HTTP 403
ThreeForbidden ==
    /\ CallReturned
    /\ Len(attempt_log) = 3
    /\ \A i \in 1..3 : attempt_log[i].ended = "http403"

ReportsThreeAttempts ==
    /\ ret[1].error # None
    /\ Contains(ret[1].error[1], <<"Failed after ", "3", " attempts: ">>)

\* C9 as stated: when all three attempts get an HTTP 403 the sleeps between the
\* first and second request add up to 5 s, those between the second and third
\* to 10 s, and the call returns an error reporting 3 attempts.
C9_ForbiddenSleeps5Then10 ==
    ThreeForbidden =>
        /\ attempt_log[2].slept_before = 5 * TicksPerSecond
        /\ attempt_log[3].slept_before = 10 * TicksPerSecond
        /\ ReportsThreeAttempts

\* C9 as amended: when all three attempts get an HTTP 403 the sleeps between the
\* first and second request add up to 7 s (backoff 5 s, retry delay 2 s), those
\* between the second and third to 13 s (backoff 10 s, retry delay 3 s), the
\* rate-limit gate adds nothing, and the call returns an error reporting 3
\* attempts.
C9_ForbiddenSleeps7Then13 ==
    ThreeForbidden =>
        /\ attempt_log[2].slept_before = 7 * TicksPerSecond
        /\ attempt_log[3].slept_before = 13 * TicksPerSecond
        /\ attempt_log[2].gate = 0
        /\ attempt_log[3].gate = 0
        /\ ReportsThreeAttempts

C9_Witness ==
    /\ ThreeForbidden
    /\ call_slept >= 20 * TicksPerSecond

\* C10: a process killed while a cache entry is being written leaves no file a
\* later lookup accepts as an entry unless the file is complete.
C10_KilledWriteLeavesNoEntry ==
    pc = "killed" => (CacheReadable => cache[CachePath] = pending[1].text)

\* C11: when a run ends, the counts of cache hits and API calls and the whole
\* list of failed chunks have been reported, also when no chunk yielded rows,
\* and no chunk was executed twice.
C11_RunReportsCountsAndFailures ==
    pc = "done" =>
        /\ report # None
        /\ report[1].stats = Some(<<cache_hits, api_calls>>)
        /\ report[1].failures = errors
        /\ \A i, j \in 1..Len(executed) : executed[i] = executed[j] => i = j

\* C12: the table fetch_fire_data returns never holds two equal rows, whatever
\* the chunks returned (overlapping rows included), and every row some chunk
\* returned is in it exactly once.
C12_ResultHasEachRowOnce ==
    pc = "done" =>
        /\ \A i, j \in 1..Len(result[1]) : result[1][i] = result[1][j] => i = j
        /\ \A c \in 1..Len(all_data) : \A k \in 1..Len(all_data[c]) :
              \E i \in 1..Len(result[1]) : result[1][i] = all_data[c][k]
        /\ \A i \in 1..Len(result[1]) :
              \E c \in 1..Len(all_data) : \E k \in 1..Len(all_data[c]) :
                  all_data[c][k] = result[1][i]

C12_Witness ==
    /\ pc = "done"
    /\ all_data = << <<1, 2>>, <<1>> >>
    /\ result = Some(<<1, 2>>)

\* Every chunk of the run has ended and none yielded rows
NoChunkYieldedRows ==
    /\ chunks # <<>>
    /\ Len(outcomes) = Len(chunks)
    /\ all_data = <<>>

\* C13: when no chunk of a run yields rows, fetch_fire_data returns an empty
\* table instead of raising, and clip_fires_to_aoi accepts that table and
\* returns empty results without error.
C13_NoRowsGivesEmptyTable ==
    NoChunkYieldedRows =>
        /\ pc \in {"loop", "done", "clipped"}
        /\ pc \in {"done", "clipped"} => result = Some(<<>>)
        /\ pc = "clipped" =>
              /\ clip_out # None
              /\ ~clip_out[1].raised
              /\ clip_out[1].all = <<>>
              /\ clip_out[1].clipped = <<>>
        /\ pc = "loop" => ENABLED FetchFireDataReturn
        /\ pc = "done" => ENABLED MainClips

C13_Witness ==
    /\ pc = "clipped"
    /\ NoChunkYieldedRows
    /\ outcomes = <<"error", "nodata">>

\* The batches the range [start, end] falls into when cut every limit days
\* from start: the k-th is [start + (k-1)*limit, start + k*limit - 1], the
\* last one clamped to end
BatchCount(start, end, limit) == (((end - start) + 1) + (limit - 1)) \div limit
BatchStartOf(k, start, limit) == start + (k - 1) * limit
BatchEndOf(k, start, end, limit) == Min(start + k * limit - 1, end)

\* C14: for a range that takes the batching branch, the output equals the
\* concatenation, in chronological order, of generate_date_chunks(batch_start,
\* batch_end, chunk_size, None) over the consecutive batches [start,
\* start + max_total_days - 1], ..., the last clamped to end; each batch spans
\* at most max_total_days days and the recursion depth is exactly one.
C14_BatchedPlanIsConcatenation ==
    (plan_pc = "planned" /\ TakesBatchBranch(plan_args[1], plan_args[2], plan_args[4])) =>
        LET start == plan_args[1]
            end   == plan_args[2]
            limit == plan_args[4][1]
            n     == BatchCount(start, end, limit)
        IN  /\ plan_out = Concat([k \in 1..n |->
                              generate_date_chunks(BatchStartOf(k, start, limit),
                                                   BatchEndOf(k, start, end, limit),
                                                   plan_args[3], None)])
            /\ \A k \in 1..n :
                  /\ BatchStartOf(k, start, limit) <= BatchEndOf(k, start, end, limit)
                  /\ (BatchEndOf(k, start, end, limit) - BatchStartOf(k, start, limit)) + 1 <= limit
            /\ BatchEndOf(n, start, end, limit) = end
            /\ plan_depth = 1

C14_Witness ==
    /\ plan_pc = "planned"
    /\ TakesBatchBranch(plan_args[1], plan_args[2], plan_args[4])
    /\ BatchCount(plan_args[1], plan_args[2], plan_args[4][1]) = 3
    /\ plan_args[3] < plan_args[4][1]
    /\ Len(plan_out) = 5
    /\ plan_depth = 1

\* C15: whenever the span of the range, (end - start) + 1 days, exceeds the
\* batch limit, the range is planned in batches of at most that many days: no
\* chunk crosses the boundary between two batches.
C15_SpanOverLimitIsBatched ==
    (/\ plan_pc = "planned"
     /\ plan_args[4] # None
     /\ (plan_args[2] - plan_args[1]) + 1 > plan_args[4][1]) =>
        \A i \in 1..Len(plan_out) :
            \E k \in 1..BatchCount(plan_args[1], plan_args[2], plan_args[4][1]) :
                /\ BatchStartOf(k, plan_args[1], plan_args[4][1]) <= plan_out[i][1]
                /\ plan_out[i][2] <= BatchEndOf(k, plan_args[1], plan_args[2], plan_args[4][1])

\* C16 as stated: the range 2023-08-01 to 2023-08-31 (days 1 to 31) with
\* chunk_size 10 is planned as three chunks of 10, 10 and 11 days.
C16_AugustThreeChunks ==
    (plan_pc = "planned" /\ plan_args \in ExampleInputs) =>
        plan_out = << <<1, 10, 10>>, <<11, 20, 10>>, <<21, 31, 11>> >>

\* C16, amended: the range 2023-08-01 to 2023-08-31 with chunk_size 10 is
\* planned as four chunks, [08-01..08-10], [08-11..08-20], [08-21..08-30] and
\* [08-31..08-31], with day counts 10, 10, 10 and 1.
C16_AugustFourChunks ==
    (plan_pc = "planned" /\ plan_args \in ExampleInputs) =>
        plan_out = << <<1, 10, 10>>, <<11, 20, 10>>, <<21, 30, 10>>, <<31, 31, 1>> >>

C16_Witness ==
    /\ plan_pc = "planned"
    /\ plan_args = <<1, 31, DefaultChunkSize, None>>
    /\ Len(plan_out) = 4

\* The call in progress is for a chunk whose cache file exists but cannot be read
EntryUnreadable ==
    /\ use_cache
    /\ chunks # <<>>
    /\ idx <= Len(chunks)
    /\ CacheFileExists
    /\ ~CacheReadable

\* C17: with use_cache true and a cache file that exists but is corrupt or
\* unreadable, fetch_single_chunk goes on to the live-fetch attempts and ends
\* with the outcome the network result determines; no error of the cache file
\* is returned as the chunk's error or raised.
C17_UnreadableEntryNeverRaises ==
    EntryUnreadable =>
        (pc = "raised" => exc # Some("OSError"))

\* A string of the shape YYYY-MM-DD: four digits, two digits and two digits
IsYMD(s) ==
    /\ Len(s) = 10
    /\ \A i \in {1, 2, 3, 4, 6, 7, 9, 10} : s[i] \in DigitChars
    /\ s[5] = "-"
    /\ s[8] = "-"

\* No key in the environment, in .env or in config.json
NoMapKey ==
    /\ Falsy(environ.os_key)
    /\ Falsy(environ.dotenv_key)
    /\ ~(environ.config.exists /\ environ.config.loads) \/ Falsy(environ.config.MAP_KEY)

\* Both date strings parse and the start lies after the end
StartLaterThanEnd ==
    /\ strptime(argv.start_date) # None
    /\ strptime(argv.end_date) # None
    /\ DateAfter(strptime(argv.start_date)[1], strptime(argv.end_date)[1])

BadGeoJson == argv.geojson \in {"missing", "unloadable"}

\* C18 as stated: main exits before fetch_fire_data is invoked when a date
\* string is not YYYY-MM-DD, when start_date > end_date, when no MAP_KEY is
\* found, or when the GeoJSON file is missing or unloadable.
C18_NotYmdExitsBeforeFetch ==
    (/\ main_pc # "unused"
     /\ \/ ~IsYMD(argv.start_date)
        \/ ~IsYMD(argv.end_date)
        \/ StartLaterThanEnd
        \/ NoMapKey
        \/ BadGeoJson) =>
        /\ ~fetch_called
        /\ main_pc \notin {"fetch", "fetching"}

\* C18, amended: main exits with status 1 before fetch_fire_data is invoked
\* when strptime with "%Y-%m-%d" rejects a date string (an unpadded month or
\* day, as in 2023-8-1, is accepted), when start_date > end_date, when no
\* MAP_KEY is found, or when the GeoJSON file is missing or unloadable; it
\* exits with no other status; and with equal start and end dates and nothing
\* else wrong it does not exit but invokes fetch_fire_data.
C18_ConfigErrorExitsBeforeFetch ==
    main_pc # "unused" =>
        /\ (\/ strptime(argv.start_date) = None
            \/ strptime(argv.end_date) = None
            \/ StartLaterThanEnd
            \/ NoMapKey
            \/ BadGeoJson) =>
               /\ ~fetch_called
               /\ main_pc \notin {"fetch", "fetching"}
        /\ main_pc = "exited" <=> exit_status # None
        /\ main_pc = "exited" => exit_status = Some(1) /\ ~fetch_called
        /\ (/\ strptime(argv.start_date) # None
            /\ strptime(argv.start_date) = strptime(argv.end_date)
            /\ argv.basemap = "none"
            /\ get_map_key(environ) # None
            /\ ~BadGeoJson) =>
               /\ main_pc # "exited"
               /\ main_pc # "fetching" => ENABLED MainNext

C18_Witness ==
    /\ main_pc = "exited"
    /\ exit_status = Some(1)
    /\ ~fetch_called
    /\ argv.start_date = DATE_8_1
    /\ argv.end_date = DATE_0801
    /\ main_key = Some(<<"c">>)
    /\ argv.geojson = "unloadable"

\* C19: a cache file changes only in an execution of fetch_single_chunk that
\* runs with use_cache and found the file of its own request absent or
\* unreadable, and only that file changes, so a valid entry is never modified
\* or replaced by a later execution; with use_cache false no cache file is read,
\* created or modified and the cache directory is not created.
C19_CacheWrittenOnlyOnMiss ==
    [][ /\ \A k \in DOMAIN cache :
              (k \notin DOMAIN cache' \/ cache'[k] # cache[k]) =>
                  /\ use_cache
                  /\ pc \in {"attempt", "writing"}
                  /\ k = CachePath
                  /\ pc = "attempt" => ~CacheReadable
        /\ \A k \in DOMAIN cache' \ DOMAIN cache :
              /\ use_cache
              /\ pc = "attempt"
              /\ k = CachePath
        /\ (pc = "loop" /\ idx <= Len(chunks) /\ use_cache /\ CacheReadable) =>
              (cache' = cache /\ pc' = "loop")
        /\ ~use_cache =>
              /\ cache' = cache
              /\ cache_dir' = cache_dir
              /\ cache_hits' = 0
              /\ (pc = "loop" /\ idx <= Len(chunks)) => pc' = "attempt"
              /\ (ret' # None) => ~ret'[1].from_cache ]_vars

C19_Witness ==
    /\ ~use_cache
    /\ cache # EmptyCache
    /\ pc = "clipped"
    /\ outcomes = <<"rows", "nodata">>
    /\ result = Some(<<1, 2>>)

\* The last attempt of the call in progress, or of the call that just ended
LastAttempt == attempt_log[Len(attempt_log)]

\* C20: per execution of fetch_single_chunk at most one cache write happens,
\* and only on the attempt that returns a non-empty table or the no-data
\* sentinel: never on a failed attempt, for a chunk that ends in error or for
\* a table with zero rows; and _last_api_call_time is assigned exactly once
\* per network attempt, before that attempt's request is issued.
C20_OneWriteOneStampPerAttempt ==
    /\ call_writes <= 1
    /\ call_writes = 1 =>
          /\ use_cache
          /\ attempt_log # <<>>
          /\ LastAttempt.ended = "ok"
          /\ \A i \in 1..(Len(attempt_log) - 1) : attempt_log[i].ended # "ok"
          /\ pc = "writing" => pending[1].how \in {"rows", "nodata"}
          /\ (CallReturned /\ Len(outcomes) = Len(executed)) =>
                /\ outcomes[Len(outcomes)] \in {"rows", "nodata"}
                /\ ret[1].error = None
    /\ (CallReturned /\ outcomes # <<>> /\ Len(outcomes) = Len(executed)
           /\ outcomes[Len(outcomes)] \in {"error", "zero"}) => call_writes = 0
    /\ pc = "attempt" => call_writes = 0
    /\ call_stamps = Len(attempt_log)
    /\ (since_get # None) => (since_stamp # None /\ since_stamp[1] >= since_get[1])

C20_Witness ==
    /\ CallReturned
    /\ call_writes = 1
    /\ call_stamps = 3
    /\ outcomes = <<"error", "rows">>

\* The calls of the run that returned from the cache, and those that ended in error
HitOutcomes == { i \in 1..Len(outcomes) : outcomes[i] \in {"hit_rows", "hit_empty"} }
ErrorOutcomes == { i \in 1..Len(outcomes) : outcomes[i] = "error" }

\* C21: every processed chunk increments exactly one of the two counters: after
\* n chunks cache_hits + api_calls = n; api_calls counts the chunks that reached
\* the network, once per chunk whatever the number of attempts, a chunk that
\* ends in error included; and len(errors) <= api_calls.
C21_EachChunkCountedOnce ==
    /\ cache_hits + api_calls = Len(outcomes)
    /\ cache_hits = Cardinality(HitOutcomes)
    /\ api_calls = Len(outcomes) - Cardinality(HitOutcomes)
    /\ Len(errors) = Cardinality(ErrorOutcomes)
    /\ Len(errors) <= api_calls
    /\ (CallReturned /\ outcomes # <<>> /\ Len(outcomes) = Len(executed)) =>
          /\ Len(outcomes) \in HitOutcomes <=> attempt_log = <<>>
          /\ Len(outcomes) \notin HitOutcomes =>
                (Len(attempt_log) >= 1 /\ Len(attempt_log) <= max_retries)
          /\ ret[1].from_cache # ret[1].api_called

C21_Witness ==
    /\ run = 2
    /\ pc = "done"
    /\ outcomes = <<"hit_rows", "error">>
    /\ cache_hits = 1
    /\ api_calls = 1
    /\ Len(errors) = 1
    /\ Len(attempt_log) = 3
====
